---- MODULE Spec2Model ----
(***************************************************************************)
(* Model of src/components/FaceRecognition.tsx: the asynchronous setup     *)
(* (loadModels, startVideo), the play handler handleVideoPlay with the     *)
(* loadLabeledImages() call it awaits, the setInterval tick handler with   *)
(* its awaited detection request, and the per-loop lastMarkedTime debounce *)
(* map.                                                                    *)
(*                                                                         *)
(* Time: Date.now() is read at line 85, once for every result of the       *)
(* forEach, so the values it returns are inputs of the step that resumes a *)
(* tick handler, one per result.  It is the wall clock: nothing in the     *)
(* code makes a later read larger than an earlier one.  setInterval runs   *)
(* on the browser's timer, which is independent of the wall clock, so a    *)
(* tick may fire whenever its interval exists.                             *)
(*                                                                         *)
(* Callbacks: onAttendanceMarked and onFaceNotDetected are functions of    *)
(* the caller, called synchronously at lines 91 and 97.  What a call does  *)
(* is an input: it returns, it unmounts the component before it returns,   *)
(* or it throws.                                                           *)
(***************************************************************************)
EXTENDS Integers, Sequences, FiniteSets, TLC

\* ---------------------------------------------------------------- bounds
MaxPlays == 2      \* play signals of the video element that are explored
MaxTicks == 2      \* timer callbacks (over all intervals) that are explored
MaxFaces == 3      \* faces the recognizer returns (over all frames) that are explored
MaxEvents == 5     \* play signals, timer callbacks, faces, failing images and the
                   \* unmount of one run that are explored, all together

\* ------------------------------------------------------ program constants
Cooldown == 60000                         \* line 89
NumNets  == 4                             \* lines 18-21
Labels   == {"Student1", "Student2"}      \* line 107
LabelList == << "Student1", "Student2" >>  \* line 107, in order
NumImages == 2                            \* line 111
Unknown  == "unknown"                     \* line 87

\* Values of Date.now() that are explored: the epoch itself and a later
\* instant, and from each of them an instant inside the cooldown window
\* (0 -> 30000), exactly the window later (1000 -> 61000) and just past
\* it (0 -> 61000, 1000 -> 62000).
Instants == {0, 1000, 30000, 61000, 62000}

Plays == 1..MaxPlays

\* The recognizer's answers for one frame: the best-match label of each face.
RECURSIVE SeqsUpTo(_, _)
SeqsUpTo(S, n) ==
    IF n = 0 THEN {<< >>}
    ELSE LET shorter == SeqsUpTo(S, n - 1)
         IN  shorter \cup {Append(s, x) : s \in {t \in shorter : Len(t) = n - 1}, x \in S}

ResultSets == SeqsUpTo(Labels \cup {Unknown}, MaxFaces)

\* Milliseconds that pass between two consecutive reads of Date.now() in
\* one forEach, as far as they are explored.
Drift == {0, 1}

\* What Date.now() returns in the n calls of one forEach: any instant for
\* the first call, and for each later call the previous value plus a drift.
RECURSIVE Reads(_)
Reads(n) ==
    IF n = 0 THEN {<< >>}
    ELSE IF n = 1 THEN {<< t >> : t \in Instants}
    ELSE {Append(r, r[n - 1] + d) : r \in Reads(n - 1), d \in Drift}

\* The inputs of one resumed tick handler, by the number of faces: the
\* recognizer's answers and the values of Date.now() for them.
Frames ==
    [n \in 0..MaxFaces |->
        {[results |-> res, reads |-> r] :
            res \in {x \in ResultSets : Len(x) = n}, r \in Reads(n)}]

\* What the caller's callbacks do during one resumed tick handler with n
\* results: which of the calls made (counted from 1 in the order they are
\* made; 0 for none) unmounts the component, and which one throws.  A tick
\* makes at most n calls of onAttendanceMarked, or one of onFaceNotDetected.
Callers ==
    [n \in 0..MaxFaces |->
        LET most == IF n = 0 THEN 1 ELSE n
        IN  [unmountAt : 0..most, throwAt : 0..most]]

VARIABLES
    videoRef,        \* videoRef.current is an element (TRUE) or null (FALSE)
    canvasRef,       \* canvasRef.current is an element (TRUE) or null (FALSE)
    mounted,         \* the component is mounted
    netsLoaded,      \* how many of the awaits of loadModels have resolved
    loadModels,      \* "running" | "done" | "rejected"
    modelsLoaded,    \* the useState flag
    camera,          \* "idle" | "requested" | "streaming" | "detached" | "failed"
    errorSink,       \* where the getUserMedia error went: "none" | "console"
    pc,              \* per play signal: "idle" | "loading" | "done"
    intervals,       \* the intervalIds that are active
    lastMarkedTime,  \* per handleVideoPlay invocation: label -> timestamp
    inflight,        \* per loop: detection requests a tick handler is awaiting
    ticks,           \* timer callbacks run so far
    lastTick,        \* what the latest resumed tick handler did
    markLog,         \* per loop and label: the onAttendanceMarked calls so far
    faces,           \* faces the recognizer has returned so far
    imgTask,         \* per loadLabeledImages call and label: the image index i and the await it is at
    descriptions,    \* per loadLabeledImages call and label: the descriptors pushed (by image number)
    imgOutcome,      \* per loadLabeledImages call and label: how each image handled so far went
    labeled,         \* per handleVideoPlay invocation: the promise loadLabeledImages returned
    faults           \* images that failed (fetch or detection) or showed no face so far

vars == << videoRef, canvasRef, mounted, netsLoaded, loadModels, modelsLoaded,
           camera, errorSink, pc, intervals, lastMarkedTime, inflight, ticks,
           lastTick, markLog, faces, imgTask, descriptions, imgOutcome, labeled,
           faults >>

setupVars == << netsLoaded, loadModels, modelsLoaded, camera, errorSink >>
refVars   == << videoRef, canvasRef, mounted >>
loopVars  == << pc, intervals, lastMarkedTime, inflight, ticks, lastTick, markLog, faces >>
labeledVars == << imgTask, descriptions, imgOutcome, labeled, faults >>
componentVars == << refVars, setupVars, loopVars >>

\* What a run has taken of the events counted by MaxEvents.
Events ==
    Cardinality({i \in Plays : pc[i] # "idle"}) + ticks + faces + faults
        + (IF mounted THEN 0 ELSE 1)

\* The faces that one more frame may bring within the bounds.
Room ==
    IF MaxFaces - faces < MaxEvents - Events
       THEN MaxFaces - faces
       ELSE MaxEvents - Events

NoTick == [loop |-> 0, status |-> "none", torndown |-> FALSE,
           results |-> << >>, before |-> << >>, trace |-> << >>,
           marked |-> << >>, detected |-> << >>, notDetected |-> 0,
           late |-> 0, propagated |-> FALSE]

\* Record of the onAttendanceMarked(L) calls of one loop: how many (2 stands
\* for two or more), the timestamp of the latest, and the smallest distance
\* between two consecutive calls.
NoCalls == [calls |-> 0, last |-> 0, minGap |-> 0]

Init ==
    /\ videoRef = TRUE
    /\ canvasRef = TRUE
    /\ mounted = TRUE
    /\ netsLoaded = 0
    /\ loadModels = "running"
    /\ modelsLoaded = FALSE
    /\ camera = "idle"
    /\ errorSink = "none"
    /\ pc = [i \in Plays |-> "idle"]
    /\ intervals = {}
    /\ lastMarkedTime = [i \in Plays |-> << >>]
    /\ inflight = [i \in Plays |-> 0]
    /\ ticks = 0
    /\ lastTick = NoTick
    /\ markLog = [i \in Plays |-> [L \in Labels |-> NoCalls]]
    /\ faces = 0
    /\ imgTask = [i \in Plays |-> [L \in Labels |-> [i |-> 1, at |-> "fetch"]]]
    /\ descriptions = [i \in Plays |-> [L \in Labels |-> << >>]]
    /\ imgOutcome = [i \in Plays |-> [L \in Labels |-> << >>]]
    /\ labeled = [i \in Plays |-> [status |-> "idle", value |-> << >>]]
    /\ faults = 0

\* ------------------------------------------------------------------ setup

\* One of the four loadFromUri awaits resolves; after the fourth,
\* setModelsLoaded(true).
LoadNet ==
    /\ loadModels = "running"
    /\ netsLoaded' = netsLoaded + 1
    /\ IF netsLoaded + 1 = NumNets
          THEN loadModels' = "done" /\ modelsLoaded' = TRUE
          ELSE UNCHANGED << loadModels, modelsLoaded >>
    /\ UNCHANGED << camera, errorSink >>
    /\ UNCHANGED refVars
    /\ UNCHANGED loopVars
    /\ UNCHANGED labeledVars

\* A loadFromUri rejects: loadModels rejects, modelsLoaded stays false.
LoadNetFails ==
    /\ loadModels = "running"
    /\ loadModels' = "rejected"
    /\ UNCHANGED << netsLoaded, modelsLoaded, camera, errorSink >>
    /\ UNCHANGED refVars
    /\ UNCHANGED loopVars
    /\ UNCHANGED labeledVars

\* The effect calling startVideo() without the modelsLoaded test of line 29.
StartVideoEffectNoModelsTest ==
    /\ mounted
    /\ videoRef
    /\ camera = "idle"
    /\ camera' = "requested"
    /\ UNCHANGED << netsLoaded, loadModels, modelsLoaded, errorSink >>
    /\ UNCHANGED refVars
    /\ UNCHANGED loopVars
    /\ UNCHANGED labeledVars

\* The effect on [modelsLoaded]: startVideo() calls getUserMedia.
StartVideoEffect ==
    /\ mounted
    /\ modelsLoaded /\ videoRef
    /\ camera = "idle"
    /\ camera' = "requested"
    /\ UNCHANGED << netsLoaded, loadModels, modelsLoaded, errorSink >>
    /\ UNCHANGED refVars
    /\ UNCHANGED loopVars
    /\ UNCHANGED labeledVars

\* getUserMedia resolves: srcObject is set when the video element is there.
GetUserMediaResolves ==
    /\ camera = "requested"
    /\ camera' = IF videoRef THEN "streaming" ELSE "detached"
    /\ UNCHANGED << netsLoaded, loadModels, modelsLoaded, errorSink >>
    /\ UNCHANGED refVars
    /\ UNCHANGED loopVars
    /\ UNCHANGED labeledVars

\* getUserMedia rejects: .catch((err) => console.error(err)).
GetUserMediaRejects ==
    /\ camera = "requested"
    /\ camera' = "failed"
    /\ errorSink' = "console"
    /\ UNCHANGED << netsLoaded, loadModels, modelsLoaded >>
    /\ UNCHANGED refVars
    /\ UNCHANGED loopVars
    /\ UNCHANGED labeledVars

\* React unmounts the component: the refs of the host elements become null.
\* Nothing clears an interval or stops the stream.
Unmount ==
    /\ mounted
    /\ Events < MaxEvents
    /\ mounted' = FALSE
    /\ videoRef' = FALSE
    /\ canvasRef' = FALSE
    /\ UNCHANGED setupVars
    /\ UNCHANGED loopVars
    /\ UNCHANGED labeledVars

\* ------------------------------------------------------- the debounce step

\* Line 90 assigning a fresh object instead of one property.
PutFresh(m, L, now) == [x \in {L} |-> now]

\* lastMarkedTime[studentName] = now on a plain object.
Put(m, L, now) == [x \in (DOMAIN m) \cup {L} |-> IF x = L THEN now ELSE m[x]]

\* !lastMarkedTime[studentName]: undefined and 0 are both falsy.
Falsy(m, L) == L \notin DOMAIN m \/ m[L] = 0

\* Line 89.
ShouldMark(m, L, now) == Falsy(m, L) \/ now - m[L] > Cooldown

\* Line 87 without its test: every best match counts as a student.
IsKnownAnyLabel(studentName) == TRUE

\* Line 87.
IsKnown(studentName) == studentName # Unknown

\* One more onAttendanceMarked(L) at time now.
Logged(c, now) ==
    [calls  |-> IF c.calls = 0 THEN 1 ELSE 2,
     last   |-> now,
     minGap |-> IF c.calls = 0 THEN 0
                ELSE IF c.calls = 1 THEN now - c.last
                ELSE IF now - c.last < c.minGap THEN now - c.last ELSE c.minGap]

\* results.forEach(...), lines 76-94; reads holds what Date.now() returns
\* for each result (line 85) and caller what the callbacks do.  acc carries
\* the map, the calls made (marked: onAttendanceMarked; detected:
\* onFaceDetected, which the loop body never calls; calls: their number;
\* late: those made when the component was unmounted), the faceDetected
\* flag, whether the component is still mounted, whether a callback threw
\* (which ends the forEach), and for each detection handled what it found
\* and did.  Line 80 tests canvasRef.current before it draws, so nothing
\* in the loop body fails after an unmount.
RECURSIVE forEachResult(_, _, _, _)
forEachResult(results, reads, caller, acc) ==
    IF results = << >> \/ acc.thrown THEN acc
    ELSE LET studentName == Head(results)
             now  == Head(reads)
             m    == acc.lastMarkedTime
             had  == studentName \in DOMAIN m
             mark == IsKnown(studentName) /\ ShouldMark(m, studentName, now)
             m2   == IF mark THEN Put(m, studentName, now) ELSE m
             call == acc.calls + 1
         IN  forEachResult(Tail(results), Tail(reads), caller,
               [lastMarkedTime |-> m2,
                marked         |-> IF mark THEN Append(acc.marked, studentName)
                                           ELSE acc.marked,
                detected       |-> acc.detected,
                calls          |-> IF mark THEN call ELSE acc.calls,
                late           |-> IF mark /\ ~acc.mounted THEN acc.late + 1
                                                           ELSE acc.late,
                mounted        |-> acc.mounted /\ ~(mark /\ caller.unmountAt = call),
                thrown         |-> mark /\ caller.throwAt = call,
                faceDetected   |-> acc.faceDetected \/ IsKnown(studentName),
                log            |-> IF mark
                                      THEN [acc.log EXCEPT ![studentName] = Logged(@, now)]
                                      ELSE acc.log,
                trace          |-> Append(acc.trace,
                                     [label    |-> studentName,
                                      hadEntry |-> had,
                                      prior    |-> IF had THEN m[studentName] ELSE 0,
                                      now      |-> now,
                                      emitted  |-> mark,
                                      stored   |-> IF studentName \in DOMAIN m2
                                                      THEN << TRUE, m2[studentName] >>
                                                      ELSE << FALSE, 0 >>])])

\* What the tick handler does once its await (line 53) has resolved:
\* line 59 dereferences videoRef.current (TypeError when null), line 63
\* tests canvasRef.current again.
ResumeOutcome(video, canvas) ==
    IF ~video THEN "threw"
    ELSE IF ~canvas THEN "skipped"
    ELSE "processed"

\* --------------------------------------------------------- the polling loop

\* The video element signals play and React calls onPlay (line 134): the
\* i-th handleVideoPlay invocation starts, calls loadLabeledImages() and
\* awaits its promise (line 46).  The call starts one async task per label
\* (labels.map, line 108), each running up to its first await, the
\* fetchImage of image 1; the promise is pending.
\* The element has autoPlay and no controls, and nothing calls play() on
\* it, so it starts playing only once line 39 has given it a stream; React
\* delivers the event to a mounted component only.
VideoPlay(i) ==
    /\ mounted
    /\ camera = "streaming"
    /\ pc[i] = "idle"
    /\ \A j \in Plays : j < i => pc[j] # "idle"
    /\ Events < MaxEvents
    /\ pc' = [pc EXCEPT ![i] = "loading"]
    /\ labeled' = [labeled EXCEPT ![i] = [status |-> "pending", value |-> << >>]]
    /\ imgTask' = [imgTask EXCEPT ![i] = [L \in Labels |-> [i |-> 1, at |-> "fetch"]]]
    /\ descriptions' = [descriptions EXCEPT ![i] = [L \in Labels |-> << >>]]
    /\ imgOutcome' = [imgOutcome EXCEPT ![i] = [L \in Labels |-> << >>]]
    /\ UNCHANGED << intervals, lastMarkedTime, inflight, ticks, lastTick, markLog, faces >>
    /\ UNCHANGED faults
    /\ UNCHANGED setupVars
    /\ UNCHANGED refVars

\* The promise of loadLabeledImages() has resolved and handleVideoPlay
\* resumes after the await of line 46: the FaceMatcher over the labeled
\* descriptors, the empty map, setInterval, and the return of line 103.
\* The returned cleanup function is not called by anything.
LabeledImagesLoaded(i) ==
    /\ pc[i] = "loading"
    /\ labeled[i].status = "resolved"
    /\ pc' = [pc EXCEPT ![i] = "done"]
    /\ lastMarkedTime' = [lastMarkedTime EXCEPT ![i] = << >>]
    /\ intervals' = intervals \cup {i}
    /\ UNCHANGED << inflight, ticks, lastTick, markLog, faces >>
    /\ UNCHANGED setupVars
    /\ UNCHANGED refVars
    /\ UNCHANGED labeledVars

\* The timer of interval i fires: line 52, and the request of lines 53-56.
Tick(i) ==
    /\ i \in intervals
    /\ ticks < MaxTicks
    /\ Events < MaxEvents
    /\ ticks' = ticks + 1
    /\ inflight' = IF videoRef /\ canvasRef
                      THEN [inflight EXCEPT ![i] = @ + 1]
                      ELSE inflight
    /\ UNCHANGED << pc, intervals, lastMarkedTime, lastTick, markLog, faces >>
    /\ UNCHANGED setupVars
    /\ UNCHANGED refVars
    /\ UNCHANGED labeledVars

\* A detection request of loop i resolves with results, in any order among
\* the pending ones: lines 58-98.  reads are the values of Date.now() and
\* caller is what the callbacks do; a reaction is drawn only for a call
\* that is made.  A callback that throws ends the handler there: the
\* exception leaves the async callback, whose promise rejects.
DetectResolves(i, results, reads, caller) ==
    /\ inflight[i] > 0
    /\ Len(reads) = Len(results)
    /\ faces + Len(results) <= MaxFaces
    /\ Events + Len(results) <= MaxEvents
    /\ faces' = faces + Len(results)
    /\ inflight' = [inflight EXCEPT ![i] = @ - 1]
    /\ LET outcome == ResumeOutcome(videoRef, canvasRef)
           start   == [lastMarkedTime |-> lastMarkedTime[i],
                       marked |-> << >>, detected |-> << >>,
                       calls |-> 0, late |-> 0,
                       mounted |-> mounted, thrown |-> FALSE,
                       faceDetected |-> FALSE,
                       log |-> markLog[i], trace |-> << >>]
           end     == IF outcome = "processed"
                         THEN forEachResult(results, reads, caller, start)
                         ELSE start
           \* lines 96-98
           notDetected == outcome = "processed" /\ ~end.thrown /\ ~end.faceDetected
           calls   == IF notDetected THEN end.calls + 1 ELSE end.calls
           unmounts == end.mounted /\ notDetected /\ caller.unmountAt = calls
           thrown  == end.thrown \/ (notDetected /\ caller.throwAt = calls)
           stays   == end.mounted /\ ~unmounts
       IN  /\ caller.unmountAt <= calls
           /\ caller.throwAt <= calls
           /\ (mounted /\ ~stays) => Events + Len(results) < MaxEvents
           /\ mounted' = stays
           /\ videoRef' = (videoRef /\ (stays \/ ~mounted))
           /\ canvasRef' = (canvasRef /\ (stays \/ ~mounted))
           /\ lastMarkedTime' = [lastMarkedTime EXCEPT ![i] = end.lastMarkedTime]
           /\ markLog' = [markLog EXCEPT ![i] = end.log]
           /\ lastTick' = [loop |-> i, status |-> outcome,
                           torndown |-> ~mounted,
                           results |-> results,
                           before |-> lastMarkedTime[i],
                           trace |-> end.trace,
                           marked |-> end.marked,
                           detected |-> end.detected,
                           notDetected |-> IF notDetected THEN 1 ELSE 0,
                           late |-> IF notDetected /\ ~end.mounted
                                       THEN end.late + 1 ELSE end.late,
                           propagated |-> outcome = "threw" \/ thrown]
    /\ UNCHANGED << pc, intervals, ticks >>
    /\ UNCHANGED setupVars
    /\ UNCHANGED labeledVars

\* A detection request of loop i rejects: the await of line 53 throws inside the
\* async callback, nothing catches it, the callback's promise rejects.
DetectRejects(i) ==
    /\ inflight[i] > 0
    /\ inflight' = [inflight EXCEPT ![i] = @ - 1]
    /\ lastTick' = [loop |-> i, status |-> "failed",
                    torndown |-> ~mounted,
                    results |-> << >>,
                    before |-> lastMarkedTime[i],
                    trace |-> << >>, marked |-> << >>, detected |-> << >>,
                    notDetected |-> 0, late |-> 0, propagated |-> TRUE]
    /\ UNCHANGED << pc, intervals, lastMarkedTime, ticks, markLog, faces >>
    /\ UNCHANGED setupVars
    /\ UNCHANGED refVars
    /\ UNCHANGED labeledVars

\* ------------------------------------------------------- loadLabeledImages

\* Lines 120-122 without the test: whatever detectSingleFace gave is pushed.
PushAlways(descs, i, detection) == Append(descs, i)

\* Lines 120-122: if (detections?.descriptor) descriptions.push(...).
\* A descriptor is identified by the number of the image it came from.
PushDescriptor(descs, i, detection) ==
    IF detection = "descriptor" THEN Append(descs, i) ELSE descs

\* Line 111: i++ and the loop test; past the last image the task returns.
NextImage(t) == [i |-> t.i + 1, at |-> IF t.i + 1 <= NumImages THEN "fetch" ELSE "done"]

\* await faceapi.fetchImage(imagePath), line 115: resolves, or rejects into
\* the catch of line 123, after which the loop goes on with the next image.
FetchImage(i, L, ok) ==
    /\ labeled[i].status = "pending"
    /\ imgTask[i][L].at = "fetch"
    /\ IF ok
          THEN /\ imgTask' = [imgTask EXCEPT ![i][L].at = "detect"]
               /\ UNCHANGED imgOutcome
               /\ UNCHANGED faults
          ELSE /\ Events < MaxEvents
               /\ faults' = faults + 1
               /\ imgTask' = [imgTask EXCEPT ![i][L] = NextImage(@)]
               /\ imgOutcome' = [imgOutcome EXCEPT ![i][L] = Append(@, "fetchError")]
    /\ UNCHANGED << descriptions, labeled >>
    /\ UNCHANGED componentVars

\* await detectSingleFace(img)...withFaceDescriptor(), lines 116-122: a
\* descriptor, undefined (no face), or a rejection caught at line 123.
DetectSingleFace(i, L, detection) ==
    /\ labeled[i].status = "pending"
    /\ imgTask[i][L].at = "detect"
    /\ IF detection = "descriptor"
          THEN UNCHANGED faults
          ELSE Events < MaxEvents /\ faults' = faults + 1
    /\ descriptions' = [descriptions EXCEPT ![i][L] =
                           IF detection = "detectError" THEN @
                           ELSE PushDescriptor(@, imgTask[i][L].i, detection)]
    /\ imgOutcome' = [imgOutcome EXCEPT ![i][L] = Append(@, detection)]
    /\ imgTask' = [imgTask EXCEPT ![i][L] = NextImage(@)]
    /\ UNCHANGED labeled
    /\ UNCHANGED componentVars

\* Every task has returned its LabeledFaceDescriptors (line 127): the
\* Promise.all of line 108 resolves with them in the order of labels.
LabeledDescriptorsResolve(i) ==
    /\ labeled[i].status = "pending"
    /\ \A L \in Labels : imgTask[i][L].at = "done"
    /\ labeled' = [labeled EXCEPT ![i] =
                      [status |-> "resolved",
                       value  |-> [k \in DOMAIN LabelList |->
                                     [label       |-> LabelList[k],
                                      descriptors |-> descriptions[i][LabelList[k]]]]]]
    /\ UNCHANGED << imgTask, descriptions, imgOutcome, faults >>
    /\ UNCHANGED componentVars

Detections == {"descriptor", "noFace", "detectError"}

Next ==
    \/ LoadNet
    \/ LoadNetFails
    \/ StartVideoEffect
    \/ GetUserMediaResolves
    \/ GetUserMediaRejects
    \/ Unmount
    \/ \E i \in Plays : VideoPlay(i)
    \/ \E i \in Plays, L \in Labels, ok \in BOOLEAN : FetchImage(i, L, ok)
    \/ \E i \in Plays, L \in Labels, detection \in Detections :
          DetectSingleFace(i, L, detection)
    \/ \E i \in Plays : LabeledDescriptorsResolve(i)
    \/ \E i \in Plays : LabeledImagesLoaded(i)
    \/ \E i \in Plays : Tick(i)
    \/ \E i \in Plays :
          /\ inflight[i] > 0
          /\ \E n \in 0..Room : \E f \in Frames[n], caller \in Callers[n] :
                DetectResolves(i, f.results, f.reads, caller)
    \/ \E i \in Plays : DetectRejects(i)

Spec == Init /\ [][Next]_vars

\* ------------------------------------------------------------- properties

RECURSIVE SumInFlight(_)
SumInFlight(S) ==
    IF S = {} THEN 0
    ELSE LET i == CHOOSE x \in S : TRUE
         IN  inflight[i] + SumInFlight(S \ {i})

\* How many onAttendanceMarked(L) calls the latest tick made.
MarkedCount(L) == Cardinality({k \in DOMAIN lastTick.marked : lastTick.marked[k] = L})

KnownIn(results) == {results[k] : k \in DOMAIN results} \ {Unknown}

\* The first detection of label L in the latest tick.
FirstOf(L) ==
    CHOOSE k \in DOMAIN lastTick.trace :
        /\ lastTick.trace[k].label = L
        /\ \A j \in 1..(k - 1) : lastTick.trace[j].label # L

\* The cooldown test as the specification words it, on the entry a
\* detection found: no prior entry, or more than the cooldown ago.
Elapsed(hadEntry, prior, now) == ~hadEntry \/ now - prior > Cooldown

\* C1: within one polling loop, no two onAttendanceMarked(L) calls are less
\* than 60,000 ms apart, whatever the ticks, results and latencies.
C1_MarksCooldownApart ==
    \A i \in Plays, L \in Labels :
        markLog[i][L].calls = 2 => markLog[i][L].minGap >= Cooldown

\* C2: once the component is unmounted no callback is invoked: not by a
\* tick handler that resumes after the unmount, and not by the rest of a
\* handler during which the component was unmounted.
C2_NoCallbackAfterTeardown ==
    /\ lastTick.torndown => lastTick.marked = << >> /\ lastTick.notDetected = 0
    /\ lastTick.late = 0

\* C3: at most one detection request is in flight for the video element.
C3_OneRequestInFlight == SumInFlight(Plays) <= 1

\* C4: a tick whose detection request fails is handled as a tick without
\* detections: onFaceNotDetected once, no onAttendanceMarked, and the error
\* does not leave the tick handler.
C4_FailedTickIsNoDetections ==
    lastTick.status = "failed" =>
        /\ lastTick.notDetected = 1
        /\ lastTick.marked = << >>
        /\ ~lastTick.propagated

\* C5: once the component is unmounted no polling interval is active.
C5_TimerCancelledOnTeardown == ~mounted => intervals = {}

\* C6: Student1 marked at now = 0 and detected again at now = 30,000 is not
\* marked again; detected again at now = 61,000 it is marked again.
C6_ScenarioFromZero ==
    lastTick.status = "processed" =>
        \A k \in DOMAIN lastTick.trace :
            LET d == lastTick.trace[k]
            IN  (d.label = "Student1" /\ d.hadEntry /\ d.prior = 0) =>
                    /\ d.now = 30000 => ~d.emitted
                    /\ d.now = 61000 => d.emitted

\* C7: a detection of a known label emits onAttendanceMarked and stores now
\* exactly when the label has no prior entry or the entry is more than
\* 60,000 ms old.
C7_MarkedIffCooldownElapsed ==
    lastTick.status = "processed" =>
        \A k \in DOMAIN lastTick.trace :
            LET d == lastTick.trace[k]
            IN  d.label # Unknown =>
                    /\ d.emitted <=> Elapsed(d.hadEntry, d.prior, d.now)
                    /\ d.emitted => d.stored = << TRUE, d.now >>
                    /\ ~d.emitted => d.stored = << d.hadEntry, d.prior >>

\* C8: a tick with an unknown face and a known label L whose cooldown has
\* elapsed calls onAttendanceMarked(L) exactly once and does not call
\* onFaceNotDetected, also when several faces match L.  (For a label the
\* forEach did not get to, the cooldown has elapsed when the label had no
\* entry before the tick.)
C8_MixedTickMarksOnce ==
    (lastTick.status = "processed" /\ Unknown \in {lastTick.results[k] : k \in DOMAIN lastTick.results}) =>
        \A L \in KnownIn(lastTick.results) :
            IF \E k \in DOMAIN lastTick.trace : lastTick.trace[k].label = L
               THEN LET d == lastTick.trace[FirstOf(L)]
                    IN  Elapsed(d.hadEntry, d.prior, d.now)
                        => MarkedCount(L) = 1 /\ lastTick.notDetected = 0
               ELSE L \notin DOMAIN lastTick.before
                        => MarkedCount(L) = 1 /\ lastTick.notDetected = 0

\* C9: a tick handled while the component is mounted whose detections are
\* none or all "unknown" calls onFaceNotDetected exactly once and does not
\* call onAttendanceMarked.
C9_NoKnownFaceNotDetected ==
    (lastTick.status = "processed" /\ KnownIn(lastTick.results) = {}) =>
        lastTick.notDetected = 1 /\ lastTick.marked = << >>

\* C9 witness: a processed tick with two faces, both unknown.
C9_Witness ==
    /\ lastTick.status = "processed"
    /\ lastTick.results = << Unknown, Unknown >>
    /\ lastTick.notDetected = 1

\* C10: when getUserMedia fails the failure is reported to the caller, no
\* interval is created, no tick runs and no callback is invoked.
C10_AcquisitionFailureTerminal ==
    camera = "failed" =>
        /\ errorSink = "caller"
        /\ intervals = {}
        /\ ticks = 0
        /\ lastTick.status = "none"

\* The entry of label L in map m: whether there is one, and its value.
Entry(m, L) == IF L \in DOMAIN m THEN << TRUE, m[L] >> ELSE << FALSE, 0 >>

\* C11: the entry of a label in a loop's lastMarkedTime changes only in a
\* step of that loop that calls onAttendanceMarked for that label, and then
\* becomes that step's now; a resumed tick that calls no onAttendanceMarked
\* leaves every map as it was.
C11_MapChangesOnlyWithMark ==
    [][ /\ \A i \in Plays, L \in Labels :
              Entry(lastMarkedTime'[i], L) # Entry(lastMarkedTime[i], L) =>
                  /\ inflight'[i] = inflight[i] - 1
                  /\ lastTick'.loop = i
                  /\ lastTick'.status = "processed"
                  /\ \E k \in DOMAIN lastTick'.trace :
                        /\ lastTick'.trace[k].label = L
                        /\ lastTick'.trace[k].emitted
                        /\ Entry(lastMarkedTime'[i], L) = << TRUE, lastTick'.trace[k].now >>
                        /\ \A j \in DOMAIN lastTick'.trace :
                              (j > k /\ lastTick'.trace[j].label = L)
                                  => ~lastTick'.trace[j].emitted
        /\ (inflight' # inflight /\ ticks' = ticks /\ lastTick'.marked = << >>) =>
              lastMarkedTime' = lastMarkedTime
      ]_vars

\* C11 witness: a tick marked Student2 only, and the entry of Student1 that
\* an earlier tick had stored is still the same.
C11_Witness ==
    /\ lastTick.status = "processed"
    /\ lastTick.marked = << "Student2" >>
    /\ "Student1" \in DOMAIN lastTick.before
    /\ Entry(lastMarkedTime[lastTick.loop], "Student1") = Entry(lastTick.before, "Student1")
    /\ Entry(lastMarkedTime[lastTick.loop], "Student2") = << TRUE, lastTick.trace[1].now >>

\* C12: whatever the number of play signals, at most one polling interval
\* is active, and a label marked by one handleVideoPlay invocation is not
\* marked by another one less than 60,000 ms later.
C12_OneLoopSharedDebounce ==
    /\ Cardinality(intervals) <= 1
    /\ lastTick.status = "processed" =>
          \A k \in DOMAIN lastTick.trace, j \in Plays \ {lastTick.loop} :
              LET d == lastTick.trace[k]
              IN  (d.emitted /\ markLog[j][d.label].calls > 0) =>
                      \/ d.now - markLog[j][d.label].last >= Cooldown
                      \/ markLog[j][d.label].last - d.now >= Cooldown

\* C13: no tick calls both onFaceNotDetected and onAttendanceMarked, and a
\* tick whose known labels are all inside their cooldown calls neither.
C13_ExclusiveAndSilentInCooldown ==
    lastTick.status = "processed" =>
        /\ ~(lastTick.notDetected > 0 /\ lastTick.marked # << >>)
        /\ ( /\ KnownIn(lastTick.results) # {}
             /\ \A k \in DOMAIN lastTick.trace :
                    LET d == lastTick.trace[k]
                    IN  d.label # Unknown => ~Elapsed(d.hadEntry, d.prior, d.now) )
           => lastTick.notDetected = 0 /\ lastTick.marked = << >>

\* C14: getUserMedia is requested only after the four models are loaded, an
\* interval exists only after play and loadLabeledImages, so no detection
\* request and no callback comes before the models and the labeled
\* descriptors; after a failed model load the camera is never requested.
C14_SetupOrder ==
    /\ camera # "idle" => netsLoaded = NumNets /\ modelsLoaded
    /\ loadModels = "rejected" => camera = "idle"
    /\ \A i \in Plays :
          /\ pc[i] # "idle" => camera = "streaming"
          /\ pc[i] = "idle" <=> labeled[i].status = "idle"
          /\ i \in intervals <=> pc[i] = "done"
          /\ i \in intervals => labeled[i].status = "resolved"
          /\ inflight[i] > 0 => i \in intervals
    /\ (ticks > 0 \/ lastTick.status # "none") =>
          /\ netsLoaded = NumNets /\ modelsLoaded
          /\ intervals # {}
    /\ lastTick.status # "none" => lastTick.loop \in intervals

\* C14 witness: a tick marked a student, after the whole setup.
C14_Witness ==
    /\ lastTick.status = "processed"
    /\ lastTick.marked # << >>
    /\ netsLoaded = NumNets
    /\ camera = "streaming"
    /\ labeled[lastTick.loop].status = "resolved"

\* C15: a tick that detects a known label L calls onFaceDetected(L).
C15_FaceDetectedCalled ==
    lastTick.status = "processed" =>
        \A L \in KnownIn(lastTick.results) :
            \E k \in DOMAIN lastTick.detected : lastTick.detected[k] = L

\* The images of label L that call i of loadLabeledImages fetched and that
\* gave a descriptor.
GoodImages(i, L) == {n \in DOMAIN imgOutcome[i][L] : imgOutcome[i][L][n] = "descriptor"}

\* C16: whatever fails among the images, loadLabeledImages goes through
\* both images of both labels and resolves with one entry per label, in the
\* order Student1, Student2, holding one descriptor for each image that was
\* fetched and gave a descriptor (0 to 2 of them).
C16_LabeledImagesTolerant ==
    \A i \in Plays :
        /\ labeled[i].status \in {"idle", "pending", "resolved"}
        /\ \A L \in Labels :
              imgTask[i][L].at = "done" <=> Len(imgOutcome[i][L]) = NumImages
        /\ labeled[i].status = "resolved" =>
              /\ Len(labeled[i].value) = Len(LabelList)
              /\ \A k \in DOMAIN labeled[i].value :
                    LET e == labeled[i].value[k]
                    IN  /\ e.label = LabelList[k]
                        /\ Len(e.descriptors) \in 0..NumImages
                        /\ Len(e.descriptors) = Cardinality(GoodImages(i, e.label))
                        /\ {e.descriptors[n] : n \in DOMAIN e.descriptors}
                               = GoodImages(i, e.label)

\* C16 witness: resolved after a fetch failure and a descriptor for
\* Student1, a face-less image and a detection failure for Student2.
C16_Witness ==
    /\ labeled[1].status = "resolved"
    /\ imgOutcome[1]["Student1"] = << "fetchError", "descriptor" >>
    /\ imgOutcome[1]["Student2"] = << "noFace", "detectError" >>
    /\ labeled[1].value[1].descriptors = << 2 >>
    /\ labeled[1].value[2].descriptors = << >>

====
